---- MODULE Spec2Model ----
(***************************************************************************)
(* absystool: command-line client of the AbsysNET library catalogue.      *)
(* One process per command (__main__): a new AbsysClient is built and one *)
(* of login / logout / status / list runs on it.  The credentials file    *)
(* CONFIG_DIR/authid is the only state that survives a process.  The      *)
(* portal's answers (HTTP bodies, the redirect URL) and the user's input  *)
(* are the environment: each blocking read is one step of the model.      *)
(***************************************************************************)
EXTENDS Integers, Sequences, FiniteSets, TLC

(* ---------------------------------------------------------------- bounds *)
\* rejected login attempts one process is followed through
MaxRejects == 2
\* distinct session tokens the portal issues
NumAuthIds == 2
\* distinct user names typed at the prompt
NumUsers == 2
\* distinct passwords typed at the prompt
NumPasswords == 1
\* distinct redirect paths the portal root announces
NumPaths == 1

TokenNames == <<"t1", "t2", "t3", "t4">>
UserNames == <<"u1", "u2", "u3", "u4">>
PasswordNames == <<"p1", "p2", "p3">>
PathNames == <<"O1", "O2", "O3">>

AuthIds == {TokenNames[i] : i \in 1..NumAuthIds}
Users == {UserNames[i] : i \in 1..NumUsers}
Passwords == {PasswordNames[i] : i \in 1..NumPasswords}
Paths == {PathNames[i] : i \in 1..NumPaths}

(* ------------------------------------------------------------- constants *)
\* ABNETSYS_BASE, as the path segments that follow the host
ABNETSYS_BASE == <<"cgi-bin", "abnetopac">>

\* the dict {} of __init__ and of the expiry branch
EmptyDict == [k \in {} |-> ""]

\* no file at CONFIG_DIR/authid
NoFile == [exists |-> FALSE, text |-> <<>>]

None == ""

VARIABLES
    authid,      \* the file CONFIG_DIR/authid: [exists, text], text = JSON members
    creds,       \* self._creds
    base,        \* self.base
    cmd,         \* sys.argv[1] of the running process
    pc,          \* where the process is blocked, or "idle" / "done" / "crashed"
    err,         \* the exception that ended the process
    out,         \* the lines printed by the process, in order
    user,        \* login: local `user`
    password,    \* login: local `password`
    path,        \* login: local `path`
    res,         \* login: what the POST response turned out to be
    depth,       \* nested login() frames on the stack
    calls,       \* login() calls made by __main__ or _ensure_auth in this process
    prompts,     \* credential prompts answered in this process
    rootGets,    \* GETs of the portal root (line 86) in this process
    posts,       \* credential POSTs (line 92) in this process
    rejects,     \* POST responses holding the failure marker in this process
    saves,       \* _save_credentials calls in this process
    probes,      \* probe GETs (line 63) in this process
    dataGets,    \* status / loans GETs in this process
    unlinks,     \* os.unlink calls in this process
    target,      \* the base the status / loans GET was addressed to
    expiredId,   \* the auth_id whose session the probe found expired
    issued,      \* the auth_id taken from the accepted login's response URL
    lastSave,    \* arguments of the latest _save_credentials call, any process
    replaced,    \* the file as it was when that call opened it for writing
    res_url,     \* login: res.url of the accepted POST response
    tried,       \* user names of the rejected attempts of this process
    page,        \* list: the rows (tr) of the loans table in the response
    today,       \* list: date.today()
    table        \* list: the rows of the table that was printed

vars == <<authid, creds, base, cmd, pc, err, out, user, password, path, res,
          depth, calls, prompts, rootGets, posts, rejects, saves, probes,
          dataGets, unlinks, target, expiredId, issued, lastSave, replaced,
          res_url, tried, page, today, table>>

locals == <<user, password, path, res>>
counters == <<calls, prompts, rootGets, posts, rejects, saves, probes,
              dataGets, unlinks>>
history == <<target, expiredId, issued, lastSave, replaced>>
attempt == <<res_url, tried>>
listing == <<page, today, table>>

(* ------------------------------------------------------- pure operations *)
\* `k in d` of a Python dict
Has(d, k) == k \in DOMAIN d

\* d[k] = v of a Python dict
DictSet(d, k, v) == [x \in (DOMAIN d) \cup {k} |-> IF x = k THEN v ELSE d[x]]

\* the keys json.dump writes, in the order this program inserts them
KeyOrder == <<"auth_id", "user_id">>

\* Dump with the user_id member left out
Dump_authOnly(d) ==
    LET keep == SelectSeq(<<"auth_id">>, LAMBDA k : Has(d, k))
    IN  [i \in 1..Len(keep) |-> <<keep[i], d[keep[i]]>>]

\* json.dump(self._creds, creds): one member per key of the dict
Dump(d) ==
    LET keep == SelectSeq(KeyOrder, LAMBDA k : Has(d, k))
    IN  [i \in 1..Len(keep) |-> <<keep[i], d[keep[i]]>>]

\* json.load(creds): the dict of the members, a later member winning
Load(text) ==
    LET keys == {text[i][1] : i \in 1..Len(text)}
        last(k) == CHOOSE i \in 1..Len(text) :
                      /\ text[i][1] = k
                      /\ \A j \in 1..Len(text) : text[j][1] = k => j <= i
    IN  [k \in keys |-> text[last(k)][2]]

\* self.ABNETSYS_BASE + '/' + auth_id
SessionBase(a) == Append(ABNETSYS_BASE, a)

\* the two assignments of _save_credentials
SaveCredentials(d, a, u) == DictSet(DictSet(d, "auth_id", a), "user_id", u)

\* the URL of an accepted POST response, as path segments
\* (marked: whether it holds the "abnetopac/" marker)
ResponseUrl(marked, tok) ==
    IF marked THEN <<"cgi-bin", "abnetopac", tok, "NT1">>
    ELSE <<"cgi-bin", "opac", tok, "NT1">>

\* res.url.split('abnetopac/')[1] succeeds
HasMarker(url) == \E i \in 1..(Len(url) - 1) : url[i] = "abnetopac"

\* res.url.split('abnetopac/')[1].split('/NT1')[0]
AuthIdOf(url) ==
    LET i == CHOOSE i \in 1..(Len(url) - 1) :
                 /\ url[i] = "abnetopac"
                 /\ \A j \in 1..(Len(url) - 1) : url[j] = "abnetopac" => i <= j
    IN  url[i + 1]

(* ------------------------------------------------------------ the process *)
Ended == pc \in {"idle", "done", "crashed"}

\* an uncaught exception ends the process
Crash(e) ==
    /\ pc' = "crashed"
    /\ err' = e
    /\ depth' = 0

Init ==
    /\ authid = NoFile
    /\ creds = EmptyDict
    /\ base = ABNETSYS_BASE
    /\ cmd = None
    /\ pc = "idle"
    /\ err = None
    /\ out = <<>>
    /\ user = None /\ password = None /\ path = None /\ res = None
    /\ depth = 0
    /\ calls = 0 /\ prompts = 0 /\ rootGets = 0 /\ posts = 0 /\ rejects = 0
    /\ saves = 0 /\ probes = 0 /\ dataGets = 0 /\ unlinks = 0
    /\ target = <<>>
    /\ expiredId = None
    /\ issued = None
    /\ lastSave = <<>>
    /\ replaced = NoFile
    /\ res_url = <<>>
    /\ tried = {}
    /\ page = <<>>
    /\ today = <<>>
    /\ table = <<>>

\* __main__: a new process, a new AbsysClient, the method named by argv[1].
\* login() is entered at once; the other methods start at their first line.
Invoke(c) ==
    /\ Ended
    /\ cmd' = c
    /\ creds' = EmptyDict
    /\ base' = ABNETSYS_BASE
    /\ err' = None
    /\ out' = IF c = "help" THEN <<"usage">> ELSE <<>>
    /\ user' = None /\ password' = None /\ path' = None /\ res' = None
    /\ depth' = IF c = "login" THEN 1 ELSE 0
    /\ calls' = IF c = "login" THEN 1 ELSE 0
    /\ prompts' = 0 /\ rootGets' = 0 /\ posts' = 0 /\ rejects' = 0
    /\ saves' = 0 /\ probes' = 0 /\ dataGets' = 0 /\ unlinks' = 0
    /\ target' = <<>>
    /\ expiredId' = None
    /\ issued' = None
    /\ pc' = CASE c = "login" -> "prompt"
               [] c = "logout" -> "logout"
               [] c \in {"status", "list"} -> "load"
               [] OTHER -> "done"
    /\ res_url' = <<>>
    /\ tried' = {}
    /\ page' = <<>>
    /\ today' = <<>>
    /\ table' = <<>>
    /\ UNCHANGED <<authid, lastSave, replaced>>


\* json.load accepts the text (a text json.load rejects is the one member
\* <<"<garbage>", "">>)
Parses(text) == \A i \in 1..Len(text) : text[i][1] # "<garbage>"

\* login() called from _ensure_auth (lines 62 and 66): a new frame, blocked
\* at the first prompt
CallLogin ==
    /\ calls' = calls + 1
    /\ depth' = 1
    /\ pc' = "prompt"

\* _ensure_auth up to its first request: _load_credentials (lines 43-48),
\* then the test of line 61
EnsureAuth ==
    /\ pc = "load"
    /\ IF ~authid.exists
       THEN /\ CallLogin
            /\ UNCHANGED <<creds, base, err>>
       ELSE IF ~Parses(authid.text)
       THEN /\ Crash("JSONDecodeError")
            /\ UNCHANGED <<creds, base, calls>>
       ELSE /\ creds' = Load(authid.text)
            /\ IF Has(creds', "auth_id")
               THEN /\ base' = SessionBase(creds'["auth_id"])
                    /\ pc' = "probe"
                    /\ UNCHANGED <<err, depth, calls>>
               ELSE /\ Crash("KeyError")
                    /\ UNCHANGED <<base, calls>>
    /\ UNCHANGED <<attempt, listing>>
    /\ UNCHANGED <<authid, cmd, out, locals, prompts, rootGets, posts,
                   rejects, saves, probes, dataGets, unlinks, history>>

\* Probe that sends the probe a second time after a failed request
Probe_retry(r) ==
    /\ pc = "probe"
    /\ probes' = probes + 1
    /\ CASE r = "clean" ->
              /\ pc' = "data"
              /\ UNCHANGED <<err, depth, out, expiredId>>
         [] r = "timeout" ->
              /\ out' = Append(out, "Previous session expired")
              /\ expiredId' = creds["auth_id"]
              /\ pc' = "expired"
              /\ UNCHANGED <<err, depth>>
         [] OTHER ->
              /\ IF probes < 1
                 THEN UNCHANGED <<pc, err, depth>>
                 ELSE Crash("ConnectionError")
              /\ UNCHANGED <<out, expiredId>>
    /\ UNCHANGED <<attempt, listing>>
    /\ UNCHANGED <<authid, creds, base, cmd, locals, calls, prompts, rootGets,
                   posts, rejects, saves, dataGets, unlinks, target, issued,
                   lastSave, replaced>>

\* line 63: the probe GET of self.base and the test of its body; on the
\* timeout marker, line 64 prints
Probe(r) ==
    /\ pc = "probe"
    /\ probes' = probes + 1
    /\ CASE r = "clean" ->
              /\ pc' = "data"
              /\ UNCHANGED <<err, depth, out, expiredId>>
         [] r = "timeout" ->
              /\ out' = Append(out, "Previous session expired")
              /\ expiredId' = creds["auth_id"]
              /\ pc' = "expired"
              /\ UNCHANGED <<err, depth>>
         [] OTHER ->
              /\ Crash("ConnectionError")
              /\ UNCHANGED <<out, expiredId>>
    /\ UNCHANGED <<attempt, listing>>
    /\ UNCHANGED <<authid, creds, base, cmd, locals, calls, prompts, rootGets,
                   posts, rejects, saves, dataGets, unlinks, target, issued,
                   lastSave, replaced>>

\* Relogin without line 65: the expired credentials stay in memory
Relogin_keep ==
    /\ pc = "expired"
    /\ CallLogin
    /\ UNCHANGED <<attempt, listing>>
    /\ UNCHANGED <<authid, creds, base, cmd, err, out, locals, prompts,
                   rootGets, posts, rejects, saves, probes, dataGets, unlinks,
                   history>>

\* Relogin that also deletes the credentials file
Relogin_unlink ==
    /\ pc = "expired"
    /\ creds' = EmptyDict
    /\ authid' = NoFile
    /\ CallLogin
    /\ UNCHANGED <<attempt, listing>>
    /\ UNCHANGED <<base, cmd, err, out, locals, prompts, rootGets, posts,
                   rejects, saves, probes, dataGets, unlinks, history>>

\* lines 65-66: the in-memory credentials are dropped and login() is called
Relogin ==
    /\ pc = "expired"
    /\ creds' = EmptyDict
    /\ CallLogin
    /\ UNCHANGED <<attempt, listing>>
    /\ UNCHANGED <<authid, base, cmd, err, out, locals, prompts, rootGets,
                   posts, rejects, saves, probes, dataGets, unlinks, history>>

\* lines 81-82: the two prompts of one login attempt (eof: stdin is closed)
Prompt(u, p, eof) ==
    /\ pc = "prompt"
    /\ prompts' = prompts + 1
    /\ IF eof
       THEN /\ Crash("EOFError")
            /\ UNCHANGED <<user, password>>
       ELSE /\ user' = u
            /\ password' = p
            /\ pc' = "get"
            /\ UNCHANGED <<err, depth>>
    /\ UNCHANGED <<attempt, listing>>
    /\ UNCHANGED <<authid, creds, base, cmd, out, path, res, calls, rootGets,
                   posts, rejects, saves, probes, dataGets, unlinks, history>>

\* RootGet without line 85: base keeps the value a loaded record gave it
RootGet_noReset(r, p) ==
    /\ pc = "get"
    /\ rootGets' = rootGets + 1
    /\ CASE r = "ok" ->
              /\ path' = p
              /\ pc' = "post"
              /\ UNCHANGED <<err, depth>>
         [] r = "nometa" ->
              /\ Crash("IndexError")
              /\ UNCHANGED path
         [] OTHER ->
              /\ Crash("ConnectionError")
              /\ UNCHANGED path
    /\ UNCHANGED <<attempt, listing>>
    /\ UNCHANGED <<authid, creds, base, cmd, out, user, password, res, calls,
                   prompts, posts, rejects, saves, probes, dataGets, unlinks,
                   history>>

\* lines 85-89: base is reset, the portal root is fetched and the redirect
\* path is cut out of its meta-refresh tag
RootGet(r, p) ==
    /\ pc = "get"
    /\ base' = ABNETSYS_BASE
    /\ rootGets' = rootGets + 1
    /\ CASE r = "ok" ->
              /\ path' = p
              /\ pc' = "post"
              /\ UNCHANGED <<err, depth>>
         [] r = "nometa" ->
              /\ Crash("IndexError")
              /\ UNCHANGED path
         [] OTHER ->
              /\ Crash("ConnectionError")
              /\ UNCHANGED path
    /\ UNCHANGED <<attempt, listing>>
    /\ UNCHANGED <<authid, creds, cmd, out, user, password, res, calls,
                   prompts, posts, rejects, saves, probes, dataGets, unlinks,
                   history>>

\* login() returns through every nested frame to its first caller
ReturnFromLogin ==
    /\ depth' = 0
    /\ pc' = IF cmd = "login" THEN "done" ELSE "data"

\* Accepted that stores the password where the user name belongs
Accepted_savePassword(anchor, url) ==
    IF ~anchor
    THEN /\ Crash("IndexError")
         /\ UNCHANGED <<authid, creds, base, out, saves, issued, lastSave,
                        replaced>>
    ELSE /\ out' = Append(out, "successfully authenticated")
         /\ IF ~HasMarker(url)
            THEN /\ Crash("IndexError")
                 /\ UNCHANGED <<authid, creds, base, saves, issued, lastSave,
                                replaced>>
            ELSE /\ creds' = SaveCredentials(creds, AuthIdOf(url), password)
                 /\ authid' = [exists |-> TRUE, text |-> Dump(creds')]
                 /\ base' = SessionBase(creds'["auth_id"])
                 /\ saves' = saves + 1
                 /\ issued' = AuthIdOf(url)
                 /\ lastSave' = <<AuthIdOf(url), user>>
                 /\ replaced' = authid
                 /\ ReturnFromLogin
                 /\ UNCHANGED err

\* Accepted without line 57: base stays the bare origin
Accepted_noBase(anchor, url) ==
    IF ~anchor
    THEN /\ Crash("IndexError")
         /\ UNCHANGED <<authid, creds, base, out, saves, issued, lastSave,
                        replaced>>
    ELSE /\ out' = Append(out, "successfully authenticated")
         /\ IF ~HasMarker(url)
            THEN /\ Crash("IndexError")
                 /\ UNCHANGED <<authid, creds, base, saves, issued, lastSave,
                                replaced>>
            ELSE /\ creds' = SaveCredentials(creds, AuthIdOf(url), user)
                 /\ authid' = [exists |-> TRUE, text |-> Dump(creds')]
                 /\ saves' = saves + 1
                 /\ issued' = AuthIdOf(url)
                 /\ lastSave' = <<AuthIdOf(url), user>>
                 /\ replaced' = authid
                 /\ ReturnFromLogin
                 /\ UNCHANGED <<err, base>>

\* lines 103-108 and _save_credentials (lines 50-57): the response does not
\* hold the failure marker
Accepted(anchor, url) ==
    IF ~anchor
    THEN /\ Crash("IndexError")
         /\ UNCHANGED <<authid, creds, base, out, saves, issued, lastSave,
                        replaced>>
    ELSE /\ out' = Append(out, "successfully authenticated")
         /\ IF ~HasMarker(url)
            THEN /\ Crash("IndexError")
                 /\ UNCHANGED <<authid, creds, base, saves, issued, lastSave,
                                replaced>>
            ELSE /\ creds' = SaveCredentials(creds, AuthIdOf(url), user)
                 /\ authid' = [exists |-> TRUE, text |-> Dump(creds')]
                 /\ base' = SessionBase(creds'["auth_id"])
                 /\ saves' = saves + 1
                 /\ issued' = AuthIdOf(url)
                 /\ lastSave' = <<AuthIdOf(url), user>>
                 /\ replaced' = authid
                 /\ ReturnFromLogin
                 /\ UNCHANGED err

\* Rejected that posts again without a new prompt and a new root GET
Rejected_repost ==
    /\ rejects < MaxRejects
    /\ rejects' = rejects + 1
    /\ pc' = "post"
    /\ UNCHANGED <<authid, creds, base, err, out, saves, issued, lastSave,
                   replaced, depth>>

\* Rejected that gives up: login() returns to its caller
Rejected_return ==
    /\ rejects < MaxRejects
    /\ rejects' = rejects + 1
    /\ ReturnFromLogin
    /\ UNCHANGED <<authid, creds, base, err, out, saves, issued, lastSave,
                   replaced>>

\* Rejected with a cap: the second rejection of a process raises
Rejected_capped ==
    /\ rejects < MaxRejects
    /\ rejects' = rejects + 1
    /\ IF rejects < 1
       THEN /\ depth' = depth + 1
            /\ pc' = "prompt"
            /\ UNCHANGED err
       ELSE Crash("RuntimeError")
    /\ UNCHANGED <<authid, creds, base, out, saves, issued, lastSave,
                   replaced>>

\* line 101: the response holds the failure marker, login() calls itself
Rejected ==
    /\ rejects < MaxRejects
    /\ rejects' = rejects + 1
    /\ depth' = depth + 1
    /\ pc' = "prompt"
    /\ UNCHANGED <<authid, creds, base, err, out, saves, issued, lastSave,
                   replaced>>

\* line 92: self.base + path + '/NT1', the address of the credentials POST
PostUrl == base \o <<path, "NT1">>

\* lines 92-108: the credentials POST and what follows its response
Post(r, anchor, marked, tok) ==
    /\ pc = "post"
    /\ posts' = posts + 1
    /\ res' = r
    /\ CASE r = "rejected" ->
              /\ Rejected
              /\ tried' = tried \cup {user}
              /\ UNCHANGED res_url
         [] r = "accepted" ->
              /\ res_url' = ResponseUrl(marked, tok)
              /\ Accepted(anchor, res_url')
              /\ UNCHANGED <<rejects, tried>>
         [] OTHER ->
              /\ Crash("ConnectionError")
              /\ UNCHANGED <<authid, creds, base, out, saves, issued,
                             lastSave, replaced, rejects, attempt>>
    /\ UNCHANGED listing
    /\ UNCHANGED <<cmd, user, password, path, calls, prompts, rootGets,
                   probes, dataGets, unlinks, target, expiredId>>

\* status, lines 115-118, after _ensure_auth has returned
Status(r) ==
    /\ pc = "data"
    /\ cmd = "status"
    /\ dataGets' = dataGets + 1
    /\ target' = base
    /\ CASE r = "ok" ->
              IF Has(creds, "user_id")
              THEN /\ out' = Append(out, "authenticated as")
                   /\ pc' = "done"
                   /\ UNCHANGED <<err, depth>>
              ELSE /\ Crash("KeyError")
                   /\ UNCHANGED out
         [] r = "noanchor" ->
              /\ Crash("IndexError")
              /\ UNCHANGED out
         [] OTHER ->
              /\ Crash("ConnectionError")
              /\ UNCHANGED out
    /\ UNCHANGED <<attempt, listing>>
    /\ UNCHANGED <<authid, creds, base, cmd, locals, calls, prompts, rootGets,
                   posts, rejects, saves, probes, unlinks, expiredId, issued,
                   lastSave, replaced>>

(* ------------------------------------------------------- the loans page *)
\* Text is a sequence of one-character strings.

\* the digits int(x, 10) accepts, with their values
Digits ==
    [c \in {"0", "1", "2", "3", "4", "5", "6", "7", "8", "9"} |->
        CASE c = "0" -> 0 [] c = "1" -> 1 [] c = "2" -> 2 [] c = "3" -> 3
          [] c = "4" -> 4 [] c = "5" -> 5 [] c = "6" -> 6 [] c = "7" -> 7
          [] c = "8" -> 8 [] OTHER -> 9]

\* int(x, 10) does not raise ValueError
IsInt(x) == Len(x) > 0 /\ \A i \in 1..Len(x) : x[i] \in DOMAIN Digits

\* int(x, 10)
RECURSIVE IntOf(_)
IntOf(x) ==
    IF Len(x) = 0 THEN 0
    ELSE 10 * IntOf(SubSeq(x, 1, Len(x) - 1)) + Digits[x[Len(x)]]

\* str.strip()
RECURSIVE Strip(_)
Strip(x) ==
    IF Len(x) = 0 THEN x
    ELSE IF x[1] = " " THEN Strip(SubSeq(x, 2, Len(x)))
    ELSE IF x[Len(x)] = " " THEN Strip(SubSeq(x, 1, Len(x) - 1))
    ELSE x

\* str.split(sep), sep one character
RECURSIVE Split(_, _)
Split(x, sep) ==
    IF \A i \in 1..Len(x) : x[i] # sep THEN <<x>>
    ELSE LET i == CHOOSE i \in 1..Len(x) :
                     x[i] = sep /\ \A j \in 1..(i - 1) : x[j] # sep
         IN  <<SubSeq(x, 1, i - 1)>> \o Split(SubSeq(x, i + 1, Len(x)), sep)

\* datetime: leap years, month lengths, and the check date(y, m, d) makes
IsLeap(y) == y % 4 = 0 /\ (y % 100 # 0 \/ y % 400 = 0)

DaysInMonth(y, m) ==
    IF m = 2 THEN (IF IsLeap(y) THEN 29 ELSE 28)
    ELSE IF m \in {4, 6, 9, 11} THEN 30 ELSE 31

ValidDate(y, m, d) ==
    /\ y \in 1..9999
    /\ m \in 1..12
    /\ d \in 1..DaysInMonth(y, m)

\* datetime: days before the first of each month of a common year
DaysBeforeMonth == <<0, 31, 59, 90, 120, 151, 181, 212, 243, 273, 304, 334>>

\* date.toordinal(): the day number of <<y, m, d>>, 1 for 1 January of year 1
Ordinal(dt) ==
    LET y == dt[1]
        m == dt[2]
        d == dt[3]
        p == y - 1
    IN  p * 365 + (p \div 4) - (p \div 100) + (p \div 400)
          + DaysBeforeMonth[m] + (IF m > 2 /\ IsLeap(y) THEN 1 ELSE 0) + d

\* RemainingDays with the operands exchanged
RemainingDays_swapped(due, t) == Ordinal(t) - Ordinal(due)

\* line 133: (due_date - date.today()).days
RemainingDays(due, t) == Ordinal(due) - Ordinal(t)

\* lines 129-135, one row: the exception it raises ("" for none) and the row
\* it adds to the table
ParseRow(row, t) ==
    IF Len(row) < 4 THEN [err |-> "IndexError", rec |-> <<>>]
    ELSE LET title == Strip(row[3])
             parts == Split(Strip(row[4]), "/")
         IN  IF Len(parts) < 3 THEN [err |-> "IndexError", rec |-> <<>>]
             ELSE IF ~(IsInt(parts[3]) /\ IsInt(parts[2]) /\ IsInt(parts[1]))
             THEN [err |-> "ValueError", rec |-> <<>>]
             ELSE LET due == <<IntOf(parts[3]), IntOf(parts[2]),
                               IntOf(parts[1])>>
                  IN  IF ~ValidDate(due[1], due[2], due[3])
                      THEN [err |-> "ValueError", rec |-> <<>>]
                      ELSE [err |-> None,
                            rec |-> [title |-> title, due |-> due,
                                     remaining |-> RemainingDays(due, t)]]

\* lines 128-135: the loop over the rows, ended by the first exception
RECURSIVE AddRows(_, _)
AddRows(rows, t) ==
    IF Len(rows) = 0 THEN [err |-> None, table |-> <<>>]
    ELSE LET r == ParseRow(Head(rows), t)
         IN  IF r.err # None THEN [err |-> r.err, table |-> <<>>]
             ELSE LET rest == AddRows(Tail(rows), t)
                  IN  IF rest.err # None THEN rest
                      ELSE [err |-> None, table |-> <<r.rec>> \o rest.table]

\* DataRows that keeps the header row
DataRows_all(pg) == pg

\* line 126: xpath(...)[1:]
DataRows(pg) == SubSeq(pg, 2, Len(pg))

\* list, lines 125-136, after _ensure_auth has returned: the loans GET, the
\* rows of its table, and the table printed when no row raised
List(r, pg, t) ==
    /\ pc = "data"
    /\ cmd = "list"
    /\ dataGets' = dataGets + 1
    /\ target' = base
    /\ IF r = "ok"
       THEN /\ page' = pg
            /\ today' = t
            /\ LET got == AddRows(DataRows(pg), t)
               IN  IF got.err = None
                   THEN /\ table' = got.table
                        /\ out' = Append(out, "table")
                        /\ pc' = "done"
                        /\ UNCHANGED <<err, depth>>
                   ELSE /\ Crash(got.err)
                        /\ UNCHANGED <<out, table>>
       ELSE /\ Crash("ConnectionError")
            /\ UNCHANGED <<out, listing>>
    /\ UNCHANGED <<authid, creds, base, cmd, locals, calls, prompts, rootGets,
                   posts, rejects, saves, probes, unlinks, expiredId, issued,
                   lastSave, replaced, attempt>>

(* what the portal's loans page may hold *)
\* rows of the loans table after the header, at most
MaxRows == 2

TitleCells == { <<" ", "A", " ">>, <<"B">> }

\* "01/01/2024", "01/03/2024"
GoodDateCells ==
    { <<"0", "1", "/", "0", "1", "/", "2", "0", "2", "4">>,
      <<"0", "1", "/", "0", "3", "/", "2", "0", "2", "4">> }

\* "31-02-2024", "31/02/2024", "1/1/2024"
BadDateCells ==
    { <<"3", "1", "-", "0", "2", "-", "2", "0", "2", "4">>,
      <<"3", "1", "/", "0", "2", "/", "2", "0", "2", "4">>,
      <<"1", "/", "1", "/", "2", "0", "2", "4">> }

OtherCell == <<"x">>

HeaderRow == <<<<"N">>, <<"C">>, <<"T">>, <<"D">>>>

LoanRows ==
    {<<OtherCell, OtherCell, ti, da>> :
        ti \in TitleCells, da \in GoodDateCells \cup BadDateCells}
      \cup {<<OtherCell, OtherCell, <<"B">>>>}

\* a header row and up to n rows after it
PagesUpTo(n) ==
    UNION {{<<HeaderRow>> \o rows : rows \in [1..k -> LoanRows]} : k \in 0..n}

LoanPages == PagesUpTo(MaxRows)

\* the pages followed in a whole run of the program: no row, one good row,
\* one row with the wrong delimiter
FewPages ==
    { <<HeaderRow>>,
      <<HeaderRow, <<OtherCell, OtherCell, <<"B">>,
                     <<"0", "1", "/", "0", "1", "/", "2", "0", "2", "4">>>>>>,
      <<HeaderRow, <<OtherCell, OtherCell, <<"B">>,
                     <<"3", "1", "-", "0", "2", "-", "2", "0", "2", "4">>>>>> }

\* the days date.today() returns: 10 January and 1 March 2024
Todays == { <<2024, 1, 10>>, <<2024, 3, 1>> }

\* the day of a whole run of the program
FewDays == { <<2024, 1, 10>> }

\* logout without the test of line 72
Logout_always ==
    /\ pc = "logout"
    /\ unlinks' = unlinks + 1
    /\ IF authid.exists
       THEN /\ authid' = NoFile
            /\ pc' = "done"
            /\ UNCHANGED <<err, depth>>
       ELSE /\ Crash("FileNotFoundError")
            /\ UNCHANGED authid
    /\ UNCHANGED <<attempt, listing>>
    /\ UNCHANGED <<creds, base, cmd, out, locals, calls, prompts, rootGets,
                   posts, rejects, saves, probes, dataGets, history>>

\* logout, lines 72-75
Logout ==
    /\ pc = "logout"
    /\ IF ~Has(creds, "auth_id")
       THEN /\ out' = Append(out, "not authenticated")
            /\ pc' = "done"
            /\ UNCHANGED <<authid, unlinks, err, depth>>
       ELSE /\ unlinks' = unlinks + 1
            /\ IF authid.exists
               THEN /\ authid' = NoFile
                    /\ pc' = "done"
                    /\ UNCHANGED <<err, depth>>
               ELSE /\ Crash("FileNotFoundError")
                    /\ UNCHANGED authid
            /\ UNCHANGED out
    /\ UNCHANGED <<attempt, listing>>
    /\ UNCHANGED <<creds, base, cmd, locals, calls, prompts, rootGets, posts,
                   rejects, saves, probes, dataGets, history>>

Commands == {"login", "logout", "status", "list", "help"}

Next ==
    \/ \E c \in Commands : Invoke(c)
    \/ EnsureAuth
    \/ \E r \in {"clean", "timeout", "neterr"} : Probe(r)
    \/ Relogin
    \/ \E u \in Users, p \in Passwords, eof \in BOOLEAN : Prompt(u, p, eof)
    \/ \E r \in {"ok", "nometa", "neterr"}, p \in Paths : RootGet(r, p)
    \/ \E r \in {"rejected", "accepted", "neterr"}, anchor \in BOOLEAN,
          marked \in BOOLEAN, tok \in AuthIds : Post(r, anchor, marked, tok)
    \/ \E r \in {"ok", "noanchor", "neterr"} : Status(r)
    \/ \E r \in {"ok", "neterr"}, pg \in FewPages, t \in FewDays : List(r, pg, t)
    \/ Logout

Spec == Init /\ [][Next]_vars

\* every dict over the two keys, the empty one included
Dicts ==
    {d \in UNION {[ks -> AuthIds \cup Users] :
                    ks \in SUBSET {"auth_id", "user_id"}} :
        /\ Has(d, "auth_id") => d["auth_id"] \in AuthIds
        /\ Has(d, "user_id") => d["user_id"] \in Users}

\* what a process may find at CONFIG_DIR/authid when the file is not only
\* this program's to write: nothing, a JSON object with any of the two
\* fields, or text that is no JSON
StoredFiles ==
    {NoFile}
      \cup {[exists |-> TRUE, text |-> Dump(d)] : d \in Dicts}
      \cup {[exists |-> TRUE, text |-> <<<<"<garbage>", "">>>>]}

InitStored ==
    /\ authid \in StoredFiles
    /\ creds = EmptyDict
    /\ base = ABNETSYS_BASE
    /\ cmd = None
    /\ pc = "idle"
    /\ err = None
    /\ out = <<>>
    /\ user = None /\ password = None /\ path = None /\ res = None
    /\ depth = 0
    /\ calls = 0 /\ prompts = 0 /\ rootGets = 0 /\ posts = 0 /\ rejects = 0
    /\ saves = 0 /\ probes = 0 /\ dataGets = 0 /\ unlinks = 0
    /\ target = <<>>
    /\ expiredId = None
    /\ issued = None
    /\ lastSave = <<>>
    /\ replaced = NoFile
    /\ res_url = <<>>
    /\ tried = {}
    /\ page = <<>>
    /\ today = <<>>
    /\ table = <<>>

SpecStored == InitStored /\ [][Next]_vars

\* a list process in which _ensure_auth has just returned: the stored record
\* was loaded and its probe came back clean
InitLoans ==
    /\ authid = [exists |-> TRUE,
                 text |-> <<<<"auth_id", "t1">>, <<"user_id", "u1">>>>]
    /\ creds = Load(authid.text)
    /\ base = SessionBase("t1")
    /\ cmd = "list"
    /\ pc = "data"
    /\ err = None
    /\ out = <<>>
    /\ user = None /\ password = None /\ path = None /\ res = None
    /\ depth = 0
    /\ calls = 0 /\ prompts = 0 /\ rootGets = 0 /\ posts = 0 /\ rejects = 0
    /\ saves = 0 /\ probes = 1 /\ dataGets = 0 /\ unlinks = 0
    /\ target = <<>>
    /\ expiredId = None
    /\ issued = None
    /\ lastSave = <<"t1", "u1">>
    /\ replaced = NoFile
    /\ res_url = <<>>
    /\ tried = {}
    /\ page = <<>>
    /\ today = <<>>
    /\ table = <<>>

\* the loans GET of that process, over every page and day
NextLoans ==
    \E r \in {"ok", "neterr"}, pg \in LoanPages, t \in Todays : List(r, pg, t)

SpecLoans == InitLoans /\ [][NextLoans]_vars

(* ------------------------------------------------------------ properties *)
LoginPcs == {"prompt", "get", "post"}

\* C1: once credentials have been saved, a logout that has run (here always
\* a separate `logout` process on a new client) has removed the persisted
\* record, so that a later load finds none.
C1_ClearAfterSave ==
    (cmd = "logout" /\ Ended /\ lastSave # <<>>) => ~authid.exists

\* C2: the file left by save(auth_id, user_id) loads back to exactly that
\* pair, and after any sequence of saves to the pair of the latest one:
\* two members, nothing of what the save replaced.
C2_RoundTrip ==
    /\ saves > 0 => authid.exists
    /\ (lastSave # <<>> /\ authid.exists) =>
          /\ Parses(authid.text)
          /\ Len(authid.text) = 2
          /\ DOMAIN Load(authid.text) = {"auth_id", "user_id"}
          /\ Load(authid.text)["auth_id"] = lastSave[1]
          /\ Load(authid.text)["user_id"] = lastSave[2]

\* a save has replaced a complete record that differed in both fields
C2_Witness ==
    /\ lastSave # <<>>
    /\ replaced.exists
    /\ Parses(replaced.text)
    /\ DOMAIN Load(replaced.text) = {"auth_id", "user_id"}
    /\ Load(replaced.text)["auth_id"] # lastSave[1]
    /\ Load(replaced.text)["user_id"] # lastSave[2]
    /\ Load(authid.text)["auth_id"] = lastSave[1]

\* C3: when the probe of loaded credentials shows the timeout marker, the
\* resolver drops the in-memory credentials and calls login exactly once;
\* the session _ensure_auth returns, and the request that follows, are built
\* from the auth_id that login took from the portal's response.
C3_ReloginOnce ==
    expiredId # None =>
       /\ calls = (IF pc = "expired" THEN 0 ELSE 1)
       /\ pc \in LoginPcs => creds = EmptyDict
       /\ pc \in {"data", "done"} =>
             /\ issued # None
             /\ Has(creds, "auth_id")
             /\ creds["auth_id"] = issued
             /\ base = SessionBase(issued)
       /\ dataGets > 0 => target = SessionBase(issued)

\* an expired session, a rejected attempt, an accepted one with a new token,
\* and the status / loans request sent to the new session
C3_Witness ==
    /\ expiredId # None
    /\ pc = "done"
    /\ rejects = 1
    /\ issued # expiredId
    /\ target = SessionBase(issued)

\* C4 as stated: a process performs at most one GET of the portal root and
\* at most one credentials POST, whatever the portal answers.
C4_AtMostOneFlow == rootGets <= 1 /\ posts <= 1

\* C4 as amended: a process calls login at most once from __main__ or the
\* resolver; each attempt of that login makes at most one root GET and at
\* most one POST, and only a credential rejection starts a further attempt:
\* with k rejections at most k+1 prompts, k+1 root GETs and k+1 POSTs.
C4_OneFlowPerAttempt ==
    /\ calls <= 1
    /\ prompts <= rejects + 1
    /\ rootGets <= prompts
    /\ posts <= rootGets

\* a login that was rejected and then accepted: one more GET and POST per
\* rejection
C4_Witness ==
    /\ pc = "done"
    /\ rejects >= 1
    /\ rootGets = rejects + 1
    /\ posts = rejects + 1

\* the session lifecycle state of the client: logging in, expiry detected
\* and not yet acted on, or else decided by the persisted record
Lifecycle ==
    IF pc \in LoginPcs THEN "Authenticating"
    ELSE IF pc = "expired" THEN "Expired"
    ELSE IF authid.exists THEN "Authenticated"
    ELSE "Unauthenticated"

\* C5: while a process runs and is not ended by an exception, the lifecycle
\* state changes only along Unauthenticated -> Authenticating ->
\* Authenticated -> Expired -> Authenticating and, on logout, Authenticated
\* -> Unauthenticated; Authenticated is entered only by an accepted login;
\* and a logout of an authenticated client ends in Unauthenticated, with no
\* persisted record.
C5_Lifecycle ==
    [][(~Ended /\ pc' # "crashed") =>
          /\ Lifecycle' # Lifecycle =>
                <<Lifecycle, Lifecycle'>> \in
                   { <<"Unauthenticated", "Authenticating">>,
                     <<"Authenticating", "Authenticated">>,
                     <<"Authenticated", "Expired">>,
                     <<"Expired", "Authenticating">>,
                     <<"Authenticated", "Unauthenticated">> }
          /\ (Lifecycle # "Authenticated" /\ Lifecycle' = "Authenticated") =>
                (Lifecycle = "Authenticating" /\ res' = "accepted")
          /\ (pc = "logout" /\ Lifecycle = "Authenticated") =>
                (Lifecycle' = "Unauthenticated" /\ ~authid'.exists)
      ]_vars

\* C6: logout with no persisted record ends normally: it prints the
\* not-authenticated message, raises nothing, deletes nothing and leaves no
\* credentials file.
C6_ClearWithoutRecord ==
    [][(pc = "logout" /\ ~authid.exists) =>
          /\ pc' = "done"
          /\ err' = None
          /\ out' = Append(out, "not authenticated")
          /\ unlinks' = unlinks
          /\ authid' = authid
      ]_vars

\* a logout process that found no record and has finished
C6_Witness ==
    /\ cmd = "logout"
    /\ pc = "done"
    /\ ~authid.exists
    /\ out = <<"not authenticated">>
    /\ unlinks = 0

\* C7: from the step that detects the expired session on, the persisted
\* record is the one that was loaded, unchanged by every step but the save
\* of an accepted login, which overwrites it with the new auth_id; while no
\* login has been accepted (also when the process ends without one) the old
\* record is on disk.
C7_RecordKeptOnExpiry ==
    [][/\ (expiredId' # None /\ saves' = saves) => authid' = authid
       /\ (expiredId' # None /\ saves' = 0) =>
             /\ authid'.exists
             /\ Parses(authid'.text)
             /\ Load(authid'.text)["auth_id"] = expiredId'
       /\ (expiredId # None /\ saves' = saves + 1) =>
             Load(authid'.text)["auth_id"] = issued'
      ]_vars

\* the re-login after an expiry was rejected and then failed: the process
\* is over and the expired record is still the file
C7_Witness ==
    /\ expiredId # None
    /\ pc = "crashed"
    /\ rejects >= 1
    /\ saves = 0
    /\ authid.exists
    /\ Load(authid.text)["auth_id"] = expiredId

\* C8: a POST response holding the failure marker changes neither the file
\* nor the in-memory credentials and puts login at a new prompt; every POST
\* is the last step of a complete attempt (one prompt and one root GET per
\* attempt so far); credentials are saved only at an accepted response, and
\* login returns only at such a save.
C8_RejectionRetries ==
    [][/\ rejects' = rejects + 1 =>
             /\ res' = "rejected"
             /\ authid' = authid
             /\ creds' = creds
             /\ saves' = saves
             /\ pc' = "prompt"
       /\ pc = "post" =>
             /\ prompts = rejects + 1
             /\ rootGets = rejects + 1
             /\ posts = rejects
       /\ saves' = saves + 1 => (pc = "post" /\ res' = "accepted")
       /\ (pc \in LoginPcs /\ pc' \in {"data", "done"}) =>
             (res' = "accepted" /\ saves' = saves + 1)
      ]_vars

\* `absystool login` that was rejected, prompted again and was accepted
C8_Witness ==
    /\ cmd = "login"
    /\ pc = "done"
    /\ rejects >= 1
    /\ saves = 1
    /\ prompts = rejects + 1
    /\ posts = rejects + 1

\* C9: no count of rejections ends login: at every rejection, whatever
\* their number so far, login calls itself once more (one more frame, a new
\* prompt, no exception), and login returns only at an accepted attempt.
C9_UnboundedRetries ==
    [][/\ (posts' = posts + 1 /\ res' = "rejected") =>
             /\ pc' = "prompt"
             /\ depth' = depth + 1
             /\ err' = None
       /\ pc \in LoginPcs => depth = rejects + 1
       /\ (pc \in LoginPcs /\ pc' \in {"data", "done"}) => res' = "accepted"
      ]_vars

\* every attempt so far rejected: login is still running, one frame deeper
\* per rejection, nothing saved
C9_Witness ==
    /\ pc = "prompt"
    /\ rejects = MaxRejects
    /\ depth = MaxRejects + 1
    /\ saves = 0
    /\ ~authid.exists

\* C10: every record the program has written holds both fields, and a
\* process that found a record with only one of the two fields behaves as
\* if there were none: it has called login, has not probed or used the
\* record as a session, and has not failed on the missing field.
C10_PartialAsAbsent ==
    /\ (lastSave # <<>> /\ authid.exists) =>
          DOMAIN Load(authid.text) = {"auth_id", "user_id"}
    /\ ( /\ cmd \in {"status", "list"}
         /\ pc # "load"
         /\ saves = 0
         /\ authid.exists
         /\ Parses(authid.text)
         /\ Cardinality(DOMAIN Load(authid.text)) = 1 ) =>
          /\ calls = 1
          /\ probes = 0
          /\ err # "KeyError"

\* C11: a process that found a record that is no JSON, or is JSON without
\* the expected fields, has failed in the load with the decoder's error (the
\* corrupt-state failure): the error ended the process, no login was started
\* as for an absent record, nothing was probed, and the file and the session
\* base are as they were.
C11_CorruptSurfaced ==
    ( /\ cmd \in {"status", "list"}
      /\ pc # "load"
      /\ saves = 0
      /\ authid.exists
      /\ (~Parses(authid.text) \/ DOMAIN Load(authid.text) = {}) ) =>
       /\ pc = "crashed"
       /\ err = "JSONDecodeError"
       /\ calls = 0
       /\ probes = 0
       /\ base = ABNETSYS_BASE

\* C12: a login attempt that finds no meta-refresh tag in the root page, no
\* identifying anchor in the accepted response, or no "abnetopac/" marker
\* in its URL fails with PageStructureError, and persists no credentials.
C12_PageStructureError ==
    [][(pc \in {"get", "post"} /\ pc' = "crashed" /\ err' # "ConnectionError") =>
          /\ err' = "PageStructureError"
          /\ authid' = authid
          /\ saves' = saves
      ]_vars

(* the loans table, lines 120-136 *)

\* a data row as the portal writes it: four cells, the fourth a real day
\* written DD/MM/YYYY
WellFormedRow(row) == Len(row) = 4 /\ row[4] \in GoodDateCells

\* the title a title cell shows, read off the cell by eye
TitleShown(cell) == IF cell = <<" ", "A", " ">> THEN <<"A">> ELSE cell

\* the day a well-formed date cell names, read off the cell by eye
DayNamed(cell) ==
    IF cell = <<"0", "1", "/", "0", "1", "/", "2", "0", "2", "4">>
    THEN <<2024, 1, 1>> ELSE <<2024, 3, 1>>

\* C13: a page of one header row and k well-formed rows gives exactly k
\* records, the i-th from the i-th row after the header; the header gives none.
C13_OneRecordPerRow ==
    ( /\ Len(page) >= 1
      /\ page[1] = HeaderRow
      /\ \A i \in 2..Len(page) : WellFormedRow(page[i]) ) =>
        /\ pc = "done"
        /\ Len(table) = Len(page) - 1
        /\ \A i \in 1..Len(table) :
              /\ table[i].title = TitleShown(page[i + 1][3])
              /\ table[i].due = DayNamed(page[i + 1][4])

C13_Witness ==
    /\ Len(page) = 3
    /\ page[2] # page[3]
    /\ WellFormedRow(page[2]) /\ WellFormedRow(page[3])
    /\ pc = "done"
    /\ Len(table) = 2
    /\ table[1].title # table[2].title
    /\ table[1].due # table[2].due

\* C14: a page with a row of fewer than four cells, or whose fourth cell is
\* not a real day written DD/MM/YYYY, ends the command with PageStructureError
\* and no table.
C14_MalformedRowRejected ==
    ( /\ Len(page) >= 1
      /\ \E i \in 2..Len(page) : ~WellFormedRow(page[i]) ) =>
        /\ pc = "crashed"
        /\ err = "PageStructureError"
        /\ table = <<>>
        /\ out = <<>>

\* the day after dt
NextDay(dt) ==
    IF dt[3] < DaysInMonth(dt[1], dt[2]) THEN <<dt[1], dt[2], dt[3] + 1>>
    ELSE IF dt[2] < 12 THEN <<dt[1], dt[2] + 1, 1>>
    ELSE <<dt[1] + 1, 1, 1>>

\* a is an earlier day than b
Before(a, b) ==
    \/ a[1] < b[1]
    \/ a[1] = b[1] /\ a[2] < b[2]
    \/ a[1] = b[1] /\ a[2] = b[2] /\ a[3] < b[3]

\* the days counted one by one from a to b, a not after b
RECURSIVE DaysFromTo(_, _)
DaysFromTo(a, b) == IF a = b THEN 0 ELSE 1 + DaysFromTo(NextDay(a), b)

\* C15: every record's remaining days is the due day minus today counted in
\* whole days, negative exactly when the due day is before today, and such a
\* record is in the printed table like any other.
C15_RemainingDays ==
    \A i \in 1..Len(table) :
        LET due == table[i].due
            n == table[i].remaining
        IN  /\ pc = "done"
            /\ n = (IF Before(due, today) THEN 0 - DaysFromTo(due, today)
                    ELSE DaysFromTo(today, due))
            /\ (n < 0) <=> Before(due, today)

C15_Witness ==
    /\ pc = "done"
    /\ today = <<2024, 1, 10>>
    /\ \E i \in 1..Len(table) :
          /\ table[i].due = <<2024, 1, 1>>
          /\ table[i].remaining = 0 - 9
    /\ \E i \in 1..Len(table) : table[i].remaining > 0

(* _ensure_auth, lines 59-66 *)

\* C16: a process sends the probe at most once, and only with a record loaded
\* from the file; a probe ended by a transport error ends the process with that
\* error, with no second probe, no login, no data request and the file as it
\* was.
C16_SingleProbe ==
    [][ /\ (probes' = probes + 1) =>
              /\ probes = 0
              /\ calls = 0
              /\ authid.exists
              /\ Parses(authid.text)
              /\ creds = Load(authid.text)
        /\ (pc = "probe" /\ pc' = "crashed") =>
              /\ err' = "ConnectionError"
              /\ probes' = 1
              /\ calls' = 0
              /\ prompts' = 0
              /\ dataGets' = 0
              /\ authid' = authid
        /\ (pc = "crashed") =>
              /\ probes' = 0
              /\ dataGets' = 0
              /\ authid' = authid ]_vars

C16_Witness ==
    /\ cmd \in {"status", "list"}
    /\ pc = "crashed"
    /\ err = "ConnectionError"
    /\ probes = 1
    /\ calls = 0
    /\ dataGets = 0
    /\ authid.exists

\* C17: when _ensure_auth has returned, base is the origin followed by the
\* auth_id of the credentials in memory, and these are the record in the file;
\* the data request goes to that base, never to the bare origin, and after an
\* expiry to the auth_id of the login that followed, not to the expired one.
C17_SessionBase ==
    /\ (pc = "data" \/ dataGets > 0) =>
          /\ Has(creds, "auth_id")
          /\ base = SessionBase(creds["auth_id"])
          /\ authid.exists
          /\ Parses(authid.text)
          /\ Load(authid.text) = creds
    /\ dataGets > 0 =>
          /\ dataGets = 1
          /\ target = base
          /\ target # ABNETSYS_BASE
          /\ expiredId # None =>
                /\ saves >= 1
                /\ target = SessionBase(issued)
                /\ issued # expiredId => target # SessionBase(expiredId)

C17_Witness ==
    /\ dataGets = 1
    /\ pc = "done"
    /\ expiredId # None
    /\ issued # expiredId
    /\ target = SessionBase(issued)
    /\ Load(authid.text)["auth_id"] = issued

(* login, lines 77-108 *)

\* C18: in every login attempt the prompt comes first, then the GET of the
\* portal root, then the POST to <root><path>/NT1, and the save follows only an
\* accepted POST; a rejected POST leads to a new prompt, and after the save
\* login changes nothing more.
C18_LoginOrder ==
    [][ /\ (prompts' = prompts + 1) =>
              /\ pc = "prompt"
              /\ rootGets = prompts /\ posts = prompts /\ rejects = prompts
              /\ saves = 0
        /\ (rootGets' = rootGets + 1) =>
              /\ pc = "get"
              /\ prompts = rootGets + 1
              /\ posts = rootGets
        /\ (posts' = posts + 1) =>
              /\ pc = "post"
              /\ prompts = posts + 1
              /\ rootGets = posts + 1
              /\ path \in Paths
              /\ PostUrl = ABNETSYS_BASE \o <<path, "NT1">>
              /\ saves = 0
        /\ (rejects' = rejects + 1) =>
              /\ posts' = posts + 1
              /\ pc' = "prompt"
              /\ saves' = 0
        /\ (saves' = saves + 1) =>
              /\ saves = 0
              /\ posts' = posts + 1
              /\ res' = "accepted"
              /\ depth' = 0
              /\ pc' \in {"done", "data"}
        /\ (saves = 1 /\ saves' = 1) =>
              /\ UNCHANGED <<authid, creds, base, prompts, rootGets, posts,
                             rejects, calls>>
              /\ pc' \notin LoginPcs ]_vars

C18_Witness ==
    /\ saves = 1
    /\ rejects = 1
    /\ prompts = 2 /\ rootGets = 2 /\ posts = 2
    /\ expiredId # None
    /\ pc = "data"

\* C19: the credentials file, written only by an accepted login attempt, holds
\* exactly auth_id and user_id: the user name entered in that attempt and the
\* token between "abnetopac/" and "/NT1" of its response URL; no password and
\* no user name of a rejected attempt other than that one is in it.
C19_RecordContents ==
    [][ /\ (authid' # authid) => saves' = saves + 1
        /\ (saves' = saves + 1) =>
              /\ res' = "accepted"
              /\ authid'.exists
              /\ Len(authid'.text) = 2
              /\ {authid'.text[i][1] : i \in 1..2} = {"auth_id", "user_id"}
              /\ Load(authid'.text)["user_id"] = user
              /\ user \in Users
              /\ \E i \in 1..(Len(res_url') - 2) :
                    /\ res_url'[i] = "abnetopac"
                    /\ res_url'[i + 1] = Load(authid'.text)["auth_id"]
                    /\ res_url'[i + 2] = "NT1"
              /\ \A i \in 1..2 :
                    /\ authid'.text[i][2] \notin Passwords
                    /\ authid'.text[i][2] # password
                    /\ authid'.text[i][2] \notin (tried \ {user}) ]_vars

C19_Witness ==
    /\ authid.exists
    /\ saves = 1
    /\ tried # {}
    /\ user \notin tried
    /\ Load(authid.text)["user_id"] = user
    /\ Load(authid.text)["auth_id"] = res_url[3]

====
